---- MODULE Spec2Model ----
(***************************************************************************)
(* A model of the SEI extraction pipeline of sei_parser.py (class          *)
(* SEIParser): the SEI payload decoder, the length-prefixed and start-code *)
(* NAL scanners, the NAL classifier and the FLV / MP4 / raw front ends.    *)
(*                                                                         *)
(* Buffers are sequences of bytes (0..255).  Offsets are 0-based as in the *)
(* Python source; At(d, i) is d[i] and Slice(d, a, b) is d[a:b].           *)
(*                                                                         *)
(* A record of the report carries the fields of the Python dict that the   *)
(* parsing decides (sei_type, size, payload_bytes, codec).  The display    *)
(* fields (sei_type_name, payload_hex, payload_string, payload_json) are   *)
(* functions of those and are left out.  Three history fields are added to *)
(* each record: g_start (offset of the first header byte of the message in *)
(* the buffer of the running entry point), g_hdr (header bytes consumed)   *)
(* and g_declared (the size as decoded, before clamping).                  *)
(***************************************************************************)
EXTENDS Integers, Sequences, FiniteSets, TLC

VARIABLES
    op,             \* the entry point that is running
    data,           \* its input buffer (nalu_data for _parse_sei_nalu)
    is_h265,        \* _parse_sei_nalu's is_h265 argument
    pc,             \* position in the running entry point
    offset,         \* the local variable offset of the running entry point
    sei_type,       \* _parse_sei_nalu: local sei_type
    sei_size,       \* _parse_sei_nalu: local sei_size
    sei_list,       \* the local list sei_list of the running entry point
    box_data_start, \* _parse_mp4: local box_data_start, Unbound until assigned
    mdat_data,      \* _parse_mp4: history of the bodies handed to the scanners
    units,          \* history: the NAL units handed to the classifier
    msg_start,      \* history: offset where the current SEI message header began
    report          \* the outcome: NoReport while running, a list, or an exception

vars == << op, data, is_h265, pc, offset, sei_type, sei_size, sei_list,
           box_data_start, mdat_data, units, msg_start, report >>

-----------------------------------------------------------------------------
(* Bounds of the model.                                                    *)

MaxPayload == 4
MaxStream == 8
MaxUnits == 2
MaxAutoUnits == 2
MaxBoxes == 2
MaxTags == 2

-----------------------------------------------------------------------------
(* Python primitives.                                                      *)

Byte == 0..255

Min(a, b) == IF a < b THEN a ELSE b

Max(a, b) == IF a > b THEN a ELSE b

At(d, i) == d[i + 1]

\* d[a:b] for 0 <= a, 0 <= b: both ends are clamped to the buffer
Slice(d, a, b) == SubSeq(d, a + 1, Min(b, Len(d)))

\* d[a:]
SliceFrom(d, a) == SubSeq(d, a + 1, Len(d))

\* struct.unpack('>I', b)[0] for a 4-byte b
U32(b) == b[1] * 16777216 + b[2] * 65536 + b[3] * 256 + b[4]

\* struct.unpack('>I', b'\x00' + b)[0] for a 3-byte b
U24(b) == b[1] * 65536 + b[2] * 256 + b[3]

\* struct.unpack('>Q', b)[0] for an 8-byte b (2^32 written as a product: the
\* model's integers are 32 bits wide, and its inputs keep every value of
\* U32 and U64 below 2^31)
U64(b) == U32(SubSeq(b, 1, 4)) * 65536 * 65536 + U32(SubSeq(b, 5, 8))

\* sc occurs in d at offset p
MatchAt(d, sc, p) == /\ p + Len(sc) <= Len(d)
                     /\ \A i \in 1..Len(sc) : d[p + i] = sc[i]

\* d.find(sc, start): the least offset >= start where sc occurs, or -1
Find(d, sc, start) ==
    LET hits == { p \in start..(Len(d) - Len(sc)) : MatchAt(d, sc, p) }
    IN  IF hits = {} THEN -1
        ELSE CHOOSE p \in hits : \A q \in hits : p <= q

RECURSIVE Concat(_)
Concat(ss) == IF ss = << >> THEN << >> ELSE Head(ss) \o Concat(Tail(ss))

\* the sequences over S of length 0..n
SeqsUpTo(S, n) == UNION { [1..k -> S] : k \in 0..n }

\* the history positions of the records rs moved by base (a callee's buffer
\* starts at offset base of its caller's buffer)
Shift(rs, base) ==
    [ i \in 1..Len(rs) |-> [ rs[i] EXCEPT !.g_start = @ + base ] ]

Unbound == -1

NoReport == [ kind |-> "none" ]

Returned(l) == [ kind |-> "list", val |-> l ]

Raised(e) == [ kind |-> "exception", name |-> e ]

-----------------------------------------------------------------------------
(* SEIParser._parse_sei_nalu: the SEI payload decoder.  A frame is the     *)
(* record of its locals; each operator below is one stretch of the code.   *)

CodecName(h265) == IF h265 THEN "H.265" ELSE "H.264"

\* lines 386-397: the header-length check and payload_start
SeiEntryStep(d, h265, f) ==
    IF h265
    THEN IF Len(d) < 3 THEN [ f EXCEPT !.pc = "return" ]
         ELSE [ f EXCEPT !.pc = "loop", !.offset = 2 ]
    ELSE IF Len(d) < 2 THEN [ f EXCEPT !.pc = "return" ]
         ELSE [ f EXCEPT !.pc = "loop", !.offset = 1 ]

\* lines 399-401: the outer loop test, and sei_type = 0
SeiLoopStep(d, f) ==
    IF f.offset < Len(d)
    THEN [ f EXCEPT !.pc = "type", !.sei_type = 0, !.msg_start = f.offset ]
    ELSE [ f EXCEPT !.pc = "return" ]

\* a decoder that counts 256 for a continuation byte
SeiTypeStep_Add256(d, f) ==
    IF f.offset < Len(d) /\ At(d, f.offset) = 255
    THEN [ f EXCEPT !.sei_type = @ + 256, !.offset = @ + 1 ]
    ELSE IF f.offset >= Len(d)
    THEN [ f EXCEPT !.pc = "return" ]
    ELSE [ f EXCEPT !.sei_type = @ + At(d, f.offset), !.offset = @ + 1,
                    !.sei_size = 0, !.pc = "size" ]

\* lines 402-413: one pass of the continuation loop of the type, or the
\* break at the end of data, or the terminal byte and sei_size = 0
SeiTypeStep(d, f) ==
    IF f.offset < Len(d) /\ At(d, f.offset) = 255
    THEN [ f EXCEPT !.sei_type = @ + 255, !.offset = @ + 1 ]
    ELSE IF f.offset >= Len(d)
    THEN [ f EXCEPT !.pc = "return" ]
    ELSE [ f EXCEPT !.sei_type = @ + At(d, f.offset), !.offset = @ + 1,
                    !.sei_size = 0, !.pc = "size" ]

\* lines 414-422: the same for the size
SeiSizeStep(d, f) ==
    IF f.offset < Len(d) /\ At(d, f.offset) = 255
    THEN [ f EXCEPT !.sei_size = @ + 255, !.offset = @ + 1 ]
    ELSE IF f.offset >= Len(d)
    THEN [ f EXCEPT !.pc = "return" ]
    ELSE [ f EXCEPT !.sei_size = @ + At(d, f.offset), !.offset = @ + 1,
                    !.pc = "payload" ]

\* a decoder that trusts the declared size
ClampSize_NoClamp(d, off, size) == size

\* lines 425-426: a declared size that overruns is clamped
ClampSize(d, off, size) ==
    IF off + size > Len(d) THEN Len(d) - off ELSE size

\* lines 428-437: the payload slice and the record
SeiInfo(d, h265, f, size) ==
    [ sei_type      |-> f.sei_type,
      size          |-> size,
      payload_bytes |-> Slice(d, f.offset, f.offset + size),
      codec         |-> CodecName(h265),
      g_start       |-> f.msg_start,
      g_hdr         |-> f.offset - f.msg_start,
      g_declared    |-> f.sei_size ]

\* a decoder that puts each new record at the front of the list
SeiPayloadStep_Prepend(d, h265, f) ==
    LET size == ClampSize(d, f.offset, f.sei_size)
    IN  [ f EXCEPT !.sei_size = size,
                   !.sei_list = << SeiInfo(d, h265, f, size) >> \o @,
                   !.offset = @ + size,
                   !.pc = "loop" ]

\* lines 425-454: clamp, slice, append, advance
SeiPayloadStep(d, h265, f) ==
    LET size == ClampSize(d, f.offset, f.sei_size)
    IN  [ f EXCEPT !.sei_size = size,
                   !.sei_list = Append(@, SeiInfo(d, h265, f, size)),
                   !.offset = @ + size,
                   !.pc = "loop" ]

SeiStep(d, h265, f) ==
    CASE f.pc = "entry"   -> SeiEntryStep(d, h265, f)
      [] f.pc = "loop"    -> SeiLoopStep(d, f)
      [] f.pc = "type"    -> SeiTypeStep(d, f)
      [] f.pc = "size"    -> SeiSizeStep(d, f)
      [] f.pc = "payload" -> SeiPayloadStep(d, h265, f)

SeiFrame0 ==
    [ pc |-> "entry", offset |-> 0, sei_type |-> 0, sei_size |-> 0,
      sei_list |-> << >>, msg_start |-> 0 ]

\* the decoder run to its return.  (Each step is bound by a quantifier, here
\* and in the other runs, so that it is evaluated once.)
RECURSIVE SeiRun(_, _, _)
SeiRun(d, h265, f) ==
    IF f.pc = "return" THEN f.sei_list
    ELSE CHOOSE l \in { SeiRun(d, h265, g) : g \in { SeiStep(d, h265, f) } } : TRUE

\* _parse_sei_nalu(nalu_data, is_h265) as a function of its arguments
ParseSeiNalu(d, h265) == SeiRun(d, h265, SeiFrame0)

-----------------------------------------------------------------------------
(* The entry point _parse_sei_nalu, run step by step.                      *)

Frame ==
    [ pc |-> pc, offset |-> offset, sei_type |-> sei_type,
      sei_size |-> sei_size, sei_list |-> sei_list, msg_start |-> msg_start ]

SetFrame(f) ==
    /\ pc' = f.pc
    /\ offset' = f.offset
    /\ sei_type' = f.sei_type
    /\ sei_size' = f.sei_size
    /\ sei_list' = f.sei_list
    /\ msg_start' = f.msg_start

SeiHeaderBytes(h265) == IF h265 THEN << 78, 1 >> ELSE << 6 >>

SeiPayloadBytes == { 0, 2, 5, 128, 254, 255 }

\* the NAL units given to _parse_sei_nalu: a NAL header cut anywhere, or a
\* whole header followed by any payload over SeiPayloadBytes
SeiInputs(h265) ==
    LET h == SeiHeaderBytes(h265)
    IN  { SubSeq(h, 1, k) : k \in 0..Len(h) }
        \cup { h \o p : p \in SeqsUpTo(SeiPayloadBytes, MaxPayload) }

InitCommon ==
    /\ pc = "entry"
    /\ offset = 0
    /\ sei_type = 0
    /\ sei_size = 0
    /\ sei_list = << >>
    /\ box_data_start = Unbound
    /\ mdat_data = << >>
    /\ units = << >>
    /\ msg_start = 0
    /\ report = NoReport

InitSei ==
    /\ op = "sei_nalu"
    /\ is_h265 \in BOOLEAN
    /\ data \in SeiInputs(is_h265)
    /\ InitCommon

SeiUnchanged == UNCHANGED << op, data, is_h265, box_data_start, mdat_data, units, report >>

SeiEntry ==
    /\ op = "sei_nalu" /\ pc = "entry"
    /\ SetFrame(SeiEntryStep(data, is_h265, Frame))
    /\ SeiUnchanged

SeiLoopTest ==
    /\ op = "sei_nalu" /\ pc = "loop"
    /\ SetFrame(SeiLoopStep(data, Frame))
    /\ SeiUnchanged

SeiScanType ==
    /\ op = "sei_nalu" /\ pc = "type"
    /\ SetFrame(SeiTypeStep(data, Frame))
    /\ SeiUnchanged

SeiScanSize ==
    /\ op = "sei_nalu" /\ pc = "size"
    /\ SetFrame(SeiSizeStep(data, Frame))
    /\ SeiUnchanged

SeiExtractPayload ==
    /\ op = "sei_nalu" /\ pc = "payload"
    /\ SetFrame(SeiPayloadStep(data, is_h265, Frame))
    /\ SeiUnchanged

\* line 456: return sei_list
SeiReturn ==
    /\ op = "sei_nalu" /\ pc = "return"
    /\ pc' = "done"
    /\ report' = Returned(sei_list)
    /\ UNCHANGED << op, data, is_h265, offset, sei_type, sei_size, sei_list,
                    box_data_start, mdat_data, units, msg_start >>

NextSei ==
    \/ SeiEntry
    \/ SeiLoopTest
    \/ SeiScanType
    \/ SeiScanSize
    \/ SeiExtractPayload
    \/ SeiReturn

SpecSei == InitSei /\ [][NextSei]_vars

-----------------------------------------------------------------------------
(* The NAL classifier: the tests made on a NAL unit before it is decoded.  *)

\* a classifier that masks the first byte with 0x0F
ClassifyH264_Mask0F(nalu_data) ==
    IF Len(nalu_data) > 0 /\ At(nalu_data, 0) % 16 = 6
    THEN ParseSeiNalu(nalu_data, FALSE)
    ELSE << >>

\* lines 225-231 and 270-276: nalu_type = nalu_data[0] & 0x1F, SEI is 6
ClassifyH264(nalu_data) ==
    IF Len(nalu_data) > 0 /\ At(nalu_data, 0) % 32 = 6
    THEN ParseSeiNalu(nalu_data, FALSE)
    ELSE << >>

\* lines 315-321: nalu_type = (nalu_data[0] >> 1) & 0x3F, SEI is 39 or 40
ClassifyH265(nalu_data) ==
    IF Len(nalu_data) >= 2 /\ (At(nalu_data, 0) \div 2) % 64 \in { 39, 40 }
    THEN ParseSeiNalu(nalu_data, TRUE)
    ELSE << >>

Classify(nalu_data, h265) ==
    IF h265 THEN ClassifyH265(nalu_data) ELSE ClassifyH264(nalu_data)

\* history: a NAL unit [start, stop) handed to the classifier, the start
\* code before it (sc_pos, sc_len; the length field for the length-prefixed
\* scan) and the records it contributed
Unit(sc_pos, sc_len, start, stop, h265, recs) ==
    [ sc_pos |-> sc_pos, sc_len |-> sc_len, start |-> start, stop |-> stop,
      codec |-> CodecName(h265), recs |-> recs, handed |-> TRUE ]

-----------------------------------------------------------------------------
(* SEIParser._parse_h264_nalus: the length-prefixed scan.                  *)

\* a scan that does not test the declared length against the buffer
NalusIter_NoOverrunCheck(d, off) ==
    IF ~ (off < Len(d)) \/ off + 4 > Len(d)
    THEN [ stop |-> TRUE, offset |-> off, recs |-> << >>, unit |-> << >> ]
    ELSE LET nalu_length == U32(Slice(d, off, off + 4))
             nalu_data == Slice(d, off + 4, off + 4 + nalu_length)
             recs == Shift(ClassifyH264(nalu_data), off + 4)
         IN  [ stop |-> FALSE, offset |-> off + 4 + nalu_length, recs |-> recs,
               unit |-> << Unit(off, 4, off + 4, off + 4 + nalu_length, FALSE, recs) >> ]

\* lines 213-233: the loop test and one iteration.  stop: the loop ended
\* (test failed or break); recs: the records the iteration appended;
\* unit: the NAL unit it took, if any
NalusIter(d, off) ==
    IF ~ (off < Len(d)) \/ off + 4 > Len(d)
    THEN [ stop |-> TRUE, offset |-> off, recs |-> << >>, unit |-> << >> ]
    ELSE LET nalu_length == U32(Slice(d, off, off + 4))
         IN  IF off + 4 + nalu_length > Len(d)
             THEN [ stop |-> TRUE, offset |-> off + 4, recs |-> << >>, unit |-> << >> ]
             ELSE LET nalu_data == Slice(d, off + 4, off + 4 + nalu_length)
                      recs == Shift(ClassifyH264(nalu_data), off + 4)
                  IN  [ stop |-> FALSE, offset |-> off + 4 + nalu_length,
                        recs |-> recs,
                        unit |-> << Unit(off, 4, off + 4, off + 4 + nalu_length,
                                         FALSE, recs) >> ]

RECURSIVE NalusRun(_, _, _)
NalusRun(d, off, acc) ==
    CHOOSE l \in { IF it.stop THEN acc ELSE NalusRun(d, it.offset, acc \o it.recs) :
                   it \in { NalusIter(d, off) } } : TRUE

\* _parse_h264_nalus(data) as a function of its argument
ParseH264Nalus(d) == NalusRun(d, 0, << >>)

-----------------------------------------------------------------------------
(* SEIParser._parse_h264_stream and _parse_h265_stream: the start-code     *)
(* scan.  The two functions differ only in the classifier.                 *)

SC3 == << 0, 0, 1 >>

SC4 == << 0, 0, 0, 1 >>

\* a search that prefers the 3-byte start code whenever one is found
NextStartCode_Prefer3(d, off) ==
    LET p3 == Find(d, SC3, off)
        p4 == Find(d, SC4, off)
    IN  IF p3 # -1 THEN << p3, 3 >>
        ELSE IF p4 # -1 THEN << p4, 4 >>
        ELSE << Len(d), 0 >>

\* lines 247-254: next_start and start_code_len after the loop over
\* start_codes = [3-byte, 4-byte]
NextStartCode(d, off) ==
    LET p3 == Find(d, SC3, off)
        a  == IF p3 # -1 /\ p3 < Len(d) THEN << p3, 3 >> ELSE << Len(d), 0 >>
        p4 == Find(d, SC4, off)
    IN  IF p4 # -1 /\ p4 < a[1] THEN << p4, 4 >> ELSE a

\* lines 261-266: nalu_end after the loop over start_codes
NaluEnd(d, nalu_start) ==
    LET p3 == Find(d, SC3, nalu_start)
        a  == IF p3 # -1 /\ p3 < Len(d) THEN p3 ELSE Len(d)
        p4 == Find(d, SC4, nalu_start)
    IN  IF p4 # -1 /\ p4 < a THEN p4 ELSE a

\* lines 245-278 (290-323): the loop test and one iteration
StreamIter(d, off, h265) ==
    IF ~ (off < Len(d))
    THEN [ stop |-> TRUE, offset |-> off, recs |-> << >>, unit |-> << >> ]
    ELSE LET sc == NextStartCode(d, off)
             next_start == sc[1]
             start_code_len == sc[2]
             nalu_start == next_start + start_code_len
             nalu_end == NaluEnd(d, nalu_start)
             nalu_data == Slice(d, nalu_start, nalu_end)
             recs == IF nalu_start < nalu_end
                     THEN Shift(Classify(nalu_data, h265), nalu_start)
                     ELSE << >>
         IN  IF next_start = Len(d)
             THEN [ stop |-> TRUE, offset |-> off, recs |-> << >>, unit |-> << >> ]
             ELSE [ stop |-> FALSE, offset |-> nalu_start, recs |-> recs,
                    unit |-> << [ Unit(next_start, start_code_len, nalu_start,
                                       nalu_end, h265, recs)
                                  EXCEPT !.handed = (nalu_start < nalu_end) ] >> ]

RECURSIVE StreamRun(_, _, _, _)
StreamRun(d, off, h265, acc) ==
    CHOOSE l \in { IF it.stop THEN acc
                   ELSE StreamRun(d, it.offset, h265, acc \o it.recs) :
                   it \in { StreamIter(d, off, h265) } } : TRUE

\* _parse_h264_stream(data)
ParseH264Stream(d) == StreamRun(d, 0, FALSE, << >>)

\* _parse_h265_stream(data)
ParseH265Stream(d) == StreamRun(d, 0, TRUE, << >>)

-----------------------------------------------------------------------------
(* The scanners as entry points, one loop iteration per step.              *)

InitScan ==
    /\ pc = "loop"
    /\ offset = 0
    /\ sei_type = 0
    /\ sei_size = 0
    /\ sei_list = << >>
    /\ box_data_start = Unbound
    /\ mdat_data = << >>
    /\ units = << >>
    /\ msg_start = 0
    /\ report = NoReport
    /\ is_h265 = (op = "h265_stream")

\* a 4-byte big-endian length field holding n < 65536
LenField(n) == << 0, 0, n \div 256, n % 256 >>

\* NAL units of the length-prefixed inputs: none, SEI units (6, and 102 with
\* nal_ref_idc set) with whole, clamped and extended headers, a header-only
\* SEI unit, other units, and units that begin like an H.265 SEI unit
NalBodies ==
    { << >>, << 6 >>, << 6, 5, 1, 7 >>, << 102, 255, 5, 2, 7 >>, << 1, 9 >>,
      << 78 >>, << 78, 1, 0, 0 >>, << 6, 5, 0, 4, 0 >> }

\* a NAL unit behind its length field
LengthPrefixed(b) == LenField(Len(b)) \o b

\* the concatenations of at most n length-prefixed units over bodies
RECURSIVE NaluRuns(_, _)
NaluRuns(bodies, n) ==
    IF n = 0 THEN { << >> }
    ELSE LET shorter == NaluRuns(bodies, n - 1)
         IN  shorter \cup { r \o LengthPrefixed(b) : r \in shorter, b \in bodies }

\* every prefix of every member of S: a stream cut anywhere
Prefixes(S) == UNION { { SubSeq(d, 1, k) : k \in 0..Len(d) } : d \in S }

\* the inputs of _parse_h264_nalus: runs of units cut anywhere, and the same
\* behind a length field of 256
NalusInputs ==
    LET runs == Prefixes(NaluRuns(NalBodies, MaxUnits))
    IN  runs \cup { r \o LenField(256) \o << 6, 5, 1, 7 >> :
                    r \in NaluRuns(NalBodies, MaxUnits - 1) }

InitNalus ==
    /\ op = "h264_nalus"
    /\ data \in NalusInputs
    /\ InitScan

ScanUnchanged ==
    UNCHANGED << op, data, is_h265, sei_type, sei_size, box_data_start,
                 mdat_data, msg_start, report >>

\* one pass of the while loop of _parse_h264_nalus
NalusLoop ==
    /\ op = "h264_nalus" /\ pc = "loop"
    /\ LET it == NalusIter(data, offset)
       IN  /\ pc' = IF it.stop THEN "return" ELSE "loop"
           /\ offset' = it.offset
           /\ sei_list' = sei_list \o it.recs
           /\ units' = units \o it.unit
    /\ ScanUnchanged

\* return sei_list (lines 235, 280, 325)
ScanReturn ==
    /\ op \in { "h264_nalus", "h264_stream", "h265_stream" } /\ pc = "return"
    /\ pc' = "done"
    /\ report' = Returned(sei_list)
    /\ UNCHANGED << op, data, is_h265, offset, sei_type, sei_size, sei_list,
                    box_data_start, mdat_data, units, msg_start >>

NextNalus ==
    \/ NalusLoop
    \/ ScanReturn

SpecNalus == InitNalus /\ [][NextNalus]_vars

\* the first byte of an SEI NAL unit of the codec
SeiHeaderByte(o) == IF o = "h265_stream" THEN 78 ELSE 6

InitStream ==
    /\ op \in { "h264_stream", "h265_stream" }
    /\ data \in SeqsUpTo({ 0, 1, SeiHeaderByte(op) }, MaxStream)
    /\ InitScan

\* one pass of the while loop of _parse_h264_stream / _parse_h265_stream
StreamLoop ==
    /\ op \in { "h264_stream", "h265_stream" } /\ pc = "loop"
    /\ LET it == StreamIter(data, offset, op = "h265_stream")
       IN  /\ pc' = IF it.stop THEN "return" ELSE "loop"
           /\ offset' = it.offset
           /\ sei_list' = sei_list \o it.recs
           /\ units' = units \o it.unit
    /\ ScanUnchanged

NextStream ==
    \/ StreamLoop
    \/ ScanReturn

SpecStream == InitStream /\ [][NextStream]_vars

\* first bytes of the NAL units of the classifier's inputs: H.264 types 6
\* (6, 38, 102), 7, 22, 14..18 and H.265 types 38..41 (76..83, and 206 with
\* the forbidden bit set), 19, 20 and 3
ClassifyFirstBytes == { 6, 38, 102, 7, 22, 76, 78, 79, 80, 81, 82, 206, 39, 40 }

ClassifyTails == { << >>, << 1 >>, << 5, 0 >>, << 1, 5, 0 >>, << 1, 5, 1, 9 >> }

ClassifyNals ==
    { << >> } \cup { << b >> \o t : b \in ClassifyFirstBytes, t \in ClassifyTails }

\* one NAL unit behind a start code or a length field
InitClassify ==
    /\ op \in { "h264_nalus", "h264_stream", "h265_stream" }
    /\ \E n \in ClassifyNals :
          data \in IF op = "h264_nalus"
                   THEN { LengthPrefixed(n) }
                   ELSE { SC3 \o n, SC4 \o n, SC3 \o n \o SC4 \o n }
    /\ InitScan

NextClassify ==
    \/ NalusLoop
    \/ StreamLoop
    \/ ScanReturn

SpecClassify == InitClassify /\ [][NextClassify]_vars

-----------------------------------------------------------------------------
(* SEIParser._parse_flv and _extract_sei_from_video_data.                  *)

FLV == << 70, 76, 86 >>

\* lines 180-206: the video tag body; codec_id = video_data[0] & 0x0F
ExtractSeiFromVideoData(video_data) ==
    IF Len(video_data) < 2 THEN << >>
    ELSE IF At(video_data, 0) % 16 = 7
    THEN IF Len(video_data) < 5 THEN << >>
         ELSE IF At(video_data, 1) = 1
         THEN Shift(ParseH264Nalus(SliceFrom(video_data, 5)), 5)
         ELSE << >>
    ELSE << >>

\* a demuxer that checks only the length of the file header
FlvMagicOk_LengthOnly(d) == ~ (Len(d) < 9)

\* line 147: the test of the FLV file header
FlvMagicOk(d) == ~ (Len(d) < 9 \/ Slice(d, 0, 3) # FLV)

\* lines 153-176: the loop test and one tag
FlvIter(d, off) ==
    IF ~ (off < Len(d)) \/ off + 11 > Len(d)
    THEN [ stop |-> TRUE, offset |-> off, recs |-> << >> ]
    ELSE LET tag_type == At(d, off)
             data_size == U24(Slice(d, off + 1, off + 4))
             body == off + 11
             video_data == Slice(d, body, body + data_size)
         IN  IF body + data_size > Len(d)
             THEN [ stop |-> TRUE, offset |-> body, recs |-> << >> ]
             ELSE [ stop |-> FALSE, offset |-> body + data_size + 4,
                    recs |-> IF tag_type = 9 /\ Len(video_data) > 0
                             THEN Shift(ExtractSeiFromVideoData(video_data), body)
                             ELSE << >> ]

\* a 3-byte big-endian field holding n < 65536
Size24(n) == << 0, n \div 256, n % 256 >>

\* an FLV tag: type, data_size, timestamp, timestamp_ext, stream_id, body,
\* and the previous-tag-size field after it
FlvTag(tag_type, data_size, body) ==
    << tag_type >> \o Size24(data_size) \o << 0, 0, 0, 0, 0, 0, 0 >> \o body
        \o << 0, 0, 0, 0 >>

SeiNal == << 6, 5, 1, 7 >>

\* tag bodies: AVC NALU packets (0x17, 0x27) with SEI units, an AVC sequence
\* header, another codec, and bodies too short to hold a packet
FlvBodies ==
    { << 23, 1, 0, 0, 0 >> \o LengthPrefixed(SeiNal),
      << 39, 1, 0, 0, 0 >> \o LengthPrefixed(<< 1, 9 >>)
          \o LengthPrefixed(<< 6, 5, 0, 4, 0 >>),
      << 23, 0, 0, 0, 0 >> \o LengthPrefixed(SeiNal),
      << 18, 1, 0, 0, 0 >> \o LengthPrefixed(SeiNal),
      << 23 >>,
      << >> }

\* video tags over FlvBodies, an audio tag that holds what a video tag
\* would, and a video tag whose data_size overruns the file
FlvTags ==
    { FlvTag(9, Len(b), b) : b \in FlvBodies }
    \cup { FlvTag(8, 5 + 4 + Len(SeiNal), << 23, 1, 0, 0, 0 >> \o LengthPrefixed(SeiNal)),
           FlvTag(9, 300, << 23, 1, 0, 0, 0 >> \o LengthPrefixed(SeiNal)) }

\* the 9-byte file header and the first previous-tag-size field
FlvHeader(magic) == magic \o << 1, 5, 0, 0, 0, 9 >> \o << 0, 0, 0, 0 >>

FlvFiles(magic) ==
    { FlvHeader(magic) \o Concat(ts) : ts \in SeqsUpTo(FlvTags, MaxTags) }

\* FLV files cut anywhere, and whole files under another signature
FlvInputs ==
    Prefixes(FlvFiles(FLV))
    \cup FlvFiles(<< 70, 76, 87 >>) \cup FlvFiles(<< 0, 76, 86 >>)

InitFlv ==
    /\ op = "flv"
    /\ data \in FlvInputs
    /\ is_h265 = FALSE
    /\ InitCommon

FlvUnchanged ==
    UNCHANGED << op, data, is_h265, sei_type, sei_size, box_data_start,
                 mdat_data, units, msg_start >>

\* lines 144-151: the signature check, raise ValueError or skip 9 + 4 bytes
FlvEntry ==
    /\ op = "flv" /\ pc = "entry"
    /\ IF FlvMagicOk(data)
       THEN /\ pc' = "loop"
            /\ offset' = 9 + 4
            /\ report' = report
       ELSE /\ pc' = "done"
            /\ offset' = offset
            /\ report' = Raised("ValueError")
    /\ sei_list' = << >>
    /\ FlvUnchanged

\* one pass of the tag loop
FlvLoop ==
    /\ op = "flv" /\ pc = "loop"
    /\ LET it == FlvIter(data, offset)
       IN  /\ pc' = IF it.stop THEN "return" ELSE "loop"
           /\ offset' = it.offset
           /\ sei_list' = sei_list \o it.recs
    /\ report' = report
    /\ FlvUnchanged

\* line 178: return sei_list
FlvReturn ==
    /\ op = "flv" /\ pc = "return"
    /\ pc' = "done"
    /\ report' = Returned(sei_list)
    /\ UNCHANGED << offset, sei_list >>
    /\ FlvUnchanged

NextFlv ==
    \/ FlvEntry
    \/ FlvLoop
    \/ FlvReturn

SpecFlv == InitFlv /\ [][NextFlv]_vars

-----------------------------------------------------------------------------
(* SEIParser._parse_mp4: the walk over the top-level boxes.                *)

MDAT == << 109, 100, 97, 116 >>

FREE == << 102, 114, 101, 101 >>

\* history: a pass of a scanner over a buffer that starts at offset base of
\* the input, and the records it returned
Pass(kind, base, recs) == [ kind |-> kind, base |-> base, recs |-> recs ]

\* lines 347-359: the two attempts over mdat_data, which starts at offset
\* base of the file.  Neither scanner raises, so neither except is taken.
MdatPasses(mdat, base) ==
    << Pass("LengthPrefixed", base, Shift(ParseH264Nalus(mdat), base)),
       Pass("StartCode", base, Shift(ParseH265Stream(mdat), base)) >>

\* a walk that takes the box from its first byte, header included
MdatBody_FromBoxStart(d, off, bds, box_size) == Slice(d, off, off + box_size)

\* line 349: mdat_data = data[box_data_start:offset+box_size]
MdatBody(d, off, bds, box_size) == Slice(d, bds, off + box_size)

\* lines 333-361: the loop test and one box.  bds is box_data_start as the
\* previous boxes left it.  outcome: "next" (go on), "stop" (loop over) or
\* "raise" (box_data_start is read before any assignment)
Mp4Iter(d, off, bds) ==
    IF ~ (off < Len(d) - 8)
    THEN [ outcome |-> "stop", offset |-> off, bds |-> bds, passes |-> << >>,
           mdat |-> << >> ]
    ELSE LET raw == U32(Slice(d, off, off + 4))
             box_type == Slice(d, off + 4, off + 8)
         IN  IF raw = 1 /\ off + 16 > Len(d)
             THEN [ outcome |-> "stop", offset |-> off, bds |-> bds,
                    passes |-> << >>, mdat |-> << >> ]
             ELSE LET box_size == IF raw = 0 THEN Len(d) - off
                                  ELSE IF raw = 1 THEN U64(Slice(d, off + 8, off + 16))
                                  ELSE raw
                      start == IF raw = 0 THEN bds
                               ELSE IF raw = 1 THEN off + 16
                               ELSE off + 8
                      body == MdatBody(d, off, start, box_size)
                  IN  IF box_type = MDAT /\ start = Unbound
                      THEN [ outcome |-> "raise", offset |-> off, bds |-> start,
                             passes |-> << >>,
                             mdat |-> << [ box |-> off, raw |-> raw, handed |-> FALSE,
                                           start |-> start, body |-> << >> ] >> ]
                      ELSE IF box_type = MDAT
                      THEN [ outcome |-> "next", offset |-> off + box_size,
                             bds |-> start, passes |-> MdatPasses(body, start),
                             mdat |-> << [ box |-> off, raw |-> raw, handed |-> TRUE,
                                           start |-> start, body |-> body ] >> ]
                      ELSE [ outcome |-> "next", offset |-> off + box_size,
                             bds |-> start, passes |-> << >>, mdat |-> << >> ]

\* the records of the passes ps, in order
RECURSIVE PassRecs(_)
PassRecs(ps) == IF ps = << >> THEN << >> ELSE Head(ps).recs \o PassRecs(Tail(ps))

\* a 4-byte big-endian field holding n < 65536
Size32(n) == << 0, 0, n \div 256, n % 256 >>

\* an 8-byte big-endian field holding n < 65536
Size64(n) == << 0, 0, 0, 0 >> \o Size32(n)

\* a box by the form of its size: "explicit" (the 32-bit size), "zero" (to
\* the end of the file), "ext" (64-bit size), "ext0" (64-bit size of 0),
\* "over" (a 32-bit size that overruns the file)
Box(form, type, body) ==
    CASE form = "explicit" -> Size32(8 + Len(body)) \o type \o body
      [] form = "zero"     -> Size32(0) \o type \o body
      [] form = "ext"      -> Size32(1) \o type \o Size64(16 + Len(body)) \o body
      [] form = "ext0"     -> Size32(1) \o type \o Size64(0) \o body
      [] form = "over"     -> Size32(8 + Len(body) + 100) \o type \o body

\* mdat bodies: a length-prefixed SEI unit, a run whose first length field
\* 00 00 00 01 is also a start code, an Annex-B H.265 SEI unit, and a
\* length-prefixed unit with two messages
MdatBodies ==
    { LengthPrefixed(SeiNal),
      LengthPrefixed(<< 78 >>) \o LengthPrefixed(<< 6, 5, 0 >>),
      SC3 \o << 78, 1, 5, 0 >>,
      LengthPrefixed(<< 6, 5, 0, 4, 0 >>) }

Mp4Boxes ==
    { Box(f, MDAT, b) : f \in { "explicit", "zero", "ext", "ext0", "over" },
                        b \in MdatBodies }
    \cup { Box(f, FREE, << 0, 0 >>) : f \in { "explicit", "zero", "ext" } }

\* files of at most MaxBoxes boxes, whole or followed by the first 9 bytes
\* of a box with a 64-bit size
Mp4Inputs ==
    { Concat(bs) \o t : bs \in SeqsUpTo(Mp4Boxes, MaxBoxes),
                        t \in { << >>, Size32(1) \o MDAT \o << 0 >> } }

InitMp4 ==
    /\ op = "mp4"
    /\ data \in Mp4Inputs
    /\ is_h265 = FALSE
    /\ InitScan

Mp4Unchanged == UNCHANGED << op, data, is_h265, sei_type, sei_size, msg_start >>

\* one pass of the while loop of _parse_mp4.  A box whose 64-bit size is 0
\* leaves offset where it was, and the loop takes the same box again without
\* end: the model follows it until MaxBoxes + 1 mdat bodies have been handed
\* to the scanners.
Mp4Loop ==
    /\ op = "mp4" /\ pc = "loop"
    /\ Len(mdat_data) <= MaxBoxes
    /\ LET it == Mp4Iter(data, offset, box_data_start)
       IN  /\ pc' = CASE it.outcome = "next"  -> "loop"
                      [] it.outcome = "stop"  -> "return"
                      [] it.outcome = "raise" -> "done"
           /\ report' = IF it.outcome = "raise" THEN Raised("UnboundLocalError")
                        ELSE report
           /\ offset' = it.offset
           /\ box_data_start' = it.bds
           /\ sei_list' = sei_list \o PassRecs(it.passes)
           /\ units' = units \o it.passes
           /\ mdat_data' = mdat_data \o it.mdat
    /\ Mp4Unchanged

\* line 363: return sei_list
Mp4Return ==
    /\ op = "mp4" /\ pc = "return"
    /\ pc' = "done"
    /\ report' = Returned(sei_list)
    /\ UNCHANGED << offset, sei_list, box_data_start, mdat_data, units >>
    /\ Mp4Unchanged

NextMp4 ==
    \/ Mp4Loop
    \/ Mp4Return

SpecMp4 == InitMp4 /\ [][NextMp4]_vars

-----------------------------------------------------------------------------
(* SEIParser._auto_detect_and_parse: both start-code scans over the file.  *)

\* NAL units of the raw inputs: H.264 SEI units, an H.265 SEI unit, another
AutoNals == { SeiNal, << 78, 1, 5, 0 >>, << 1, 9 >>, << 6, 5, 0, 4, 0 >> }

AutoUnits == { sc \o n : sc \in { SC3, SC4 }, n \in AutoNals }

AutoInputs == { Concat(us) : us \in SeqsUpTo(AutoUnits, MaxAutoUnits) }

InitAuto ==
    /\ op = "auto"
    /\ data \in AutoInputs
    /\ pc = "h264"
    /\ offset = 0
    /\ sei_type = 0
    /\ sei_size = 0
    /\ sei_list = << >>
    /\ box_data_start = Unbound
    /\ mdat_data = << >>
    /\ units = << >>
    /\ msg_start = 0
    /\ report = NoReport
    /\ is_h265 = FALSE

AutoUnchanged ==
    UNCHANGED << op, data, is_h265, offset, sei_type, sei_size, box_data_start,
                 mdat_data, msg_start >>

\* lines 370-373: the H.264 scan of the whole file (it does not raise)
AutoH264 ==
    /\ op = "auto" /\ pc = "h264"
    /\ pc' = "h265"
    /\ sei_list' = sei_list \o ParseH264Stream(data)
    /\ units' = Append(units, Pass("H.264", 0, ParseH264Stream(data)))
    /\ report' = report
    /\ AutoUnchanged

\* lines 375-378: the H.265 scan of the whole file
AutoH265 ==
    /\ op = "auto" /\ pc = "h265"
    /\ pc' = "return"
    /\ sei_list' = sei_list \o ParseH265Stream(data)
    /\ units' = Append(units, Pass("H.265", 0, ParseH265Stream(data)))
    /\ report' = report
    /\ AutoUnchanged

\* line 380: return sei_list
AutoReturn ==
    /\ op = "auto" /\ pc = "return"
    /\ pc' = "done"
    /\ report' = Returned(sei_list)
    /\ UNCHANGED << sei_list, units >>
    /\ AutoUnchanged

NextAuto ==
    \/ AutoH264
    \/ AutoH265
    \/ AutoReturn

SpecAuto == InitAuto /\ [][NextAuto]_vars

-----------------------------------------------------------------------------
(* Every entry point of the parser.                                        *)

Init ==
    \/ InitSei
    \/ InitNalus
    \/ InitStream
    \/ InitFlv
    \/ InitMp4
    \/ InitAuto

Next ==
    \/ NextSei
    \/ NalusLoop
    \/ StreamLoop
    \/ ScanReturn
    \/ NextFlv
    \/ NextMp4
    \/ NextAuto

Spec == Init /\ [][Next]_vars

-----------------------------------------------------------------------------
(* The extended encoding, stated without the decoder.                      *)

\* the number of consecutive bytes 0xFF of d from offset p on
FFRun(d, p) ==
    CHOOSE k \in 0..Len(d) :
        /\ \A i \in 0..(k - 1) : p + i < Len(d) /\ At(d, p + i) = 255
        /\ (p + k >= Len(d) \/ At(d, p + k) # 255)

\* encode(255*k + r) = (0xFF)*k ++ r
Encode(v) ==
    [ i \in 1..((v \div 255) + 1) |-> IF i <= v \div 255 THEN 255 ELSE v % 255 ]

\* a whole message header (type bytes, then size bytes) lies in d from p on
HeaderAt(d, p) ==
    /\ p + FFRun(d, p) < Len(d)
    /\ p + FFRun(d, p) + 1 + FFRun(d, p + FFRun(d, p) + 1) < Len(d)

PayloadStart(h265) == IF h265 THEN 2 ELSE 1

\* the offset just after record m's payload
EndOf(m) == m.g_start + m.g_hdr + m.size

\* the records of rs lie end to end from offset p0 of d on, and no whole
\* header lies at the boundary after the last of them
MessagesTiled(d, rs, p0) ==
    /\ \A i \in 1..Len(rs) :
          rs[i].g_start = (IF i = 1 THEN p0 ELSE EndOf(rs[i - 1]))
    /\ LET b == IF rs = << >> THEN p0 ELSE EndOf(rs[Len(rs)])
       IN  ~ (b < Len(d) /\ HeaderAt(d, b))

\* record m of d decodes its header bytes by the extended encoding
DecodesExactly(d, m) ==
    LET p == m.g_start
        k == FFRun(d, p)
        r == At(d, p + k)
        q == p + k + 1
        j == FFRun(d, q)
        s == At(d, q + j)
    IN  /\ HeaderAt(d, p)
        /\ r < 255 /\ s < 255
        /\ m.sei_type = 255 * k + r
        /\ m.g_declared = 255 * j + s
        /\ m.g_hdr = k + 1 + j + 1
        /\ Encode(m.sei_type) = Slice(d, p, q)
        /\ Encode(m.g_declared) = Slice(d, q, q + j + 1)

-----------------------------------------------------------------------------
(* Claims about _parse_sei_nalu, checked under SpecSei.                    *)

\* C1: every message header k x 0xFF, r, j x 0xFF, s that lies inside the
\* NAL unit at a message boundary yields a record with sei_type = 255k + r
\* and declared size 255j + s, consumes k+1+j+1 bytes, and re-encoding the
\* decoded values reproduces the header bytes; no such header is skipped.
C1_ExtendedEncodingExact ==
    /\ \A i \in 1..Len(sei_list) : DecodesExactly(data, sei_list[i])
    /\ pc = "done" /\ Len(data) > PayloadStart(is_h265)
         => MessagesTiled(data, sei_list, PayloadStart(is_h265))

\* C1 witness: FF 05 FF 02 has been decoded as type 260, declared size 257
C1_Witness ==
    /\ pc = "done"
    /\ \E i \in 1..Len(sei_list) :
          /\ sei_list[i].sei_type = 260
          /\ sei_list[i].g_declared = 257
          /\ sei_list[i].g_hdr = 4

\* C2: every record's size is the length of its payload bytes and is
\* min(declared size, bytes left after the header); an overrunning size is
\* clamped and the record is still emitted; offset never exceeds len(nalu_data).
C2_SizeClampedInBounds ==
    /\ offset <= Len(data)
    /\ \A i \in 1..Len(sei_list) :
          LET m == sei_list[i]
          IN  /\ m.size = Len(m.payload_bytes)
              /\ m.size = Min(m.g_declared, Len(data) - (m.g_start + m.g_hdr))
              /\ m.payload_bytes = SubSeq(data, m.g_start + m.g_hdr + 1, EndOf(m))
    /\ pc = "loop" /\ offset > PayloadStart(is_h265)
         => /\ sei_list # << >>
            /\ EndOf(sei_list[Len(sei_list)]) = offset
            /\ sei_list[Len(sei_list)].size = sei_size

\* C2 witness: a record whose declared size overran and was clamped
C2_Witness ==
    /\ pc = "done"
    /\ \E i \in 1..Len(sei_list) :
          /\ sei_list[i].g_declared > sei_list[i].size
          /\ sei_list[i].size > 0

-----------------------------------------------------------------------------
(* Claims about the scanners and the classifier.                           *)

\* the records of the units us, in order
RECURSIVE UnitRecs(_)
UnitRecs(us) == IF us = << >> THEN << >> ELSE Head(us).recs \o UnitRecs(Tail(us))

\* the offset where the length-prefixed scan stands after the units us
ScanPoint(us) == IF us = << >> THEN 0 ELSE us[Len(us)].stop

\* a whole length field and the whole body it declares lie in d from p on
UnitFitsAt(d, p) ==
    /\ p + 4 <= Len(d)
    /\ p + 4 + U32(SubSeq(d, p + 1, p + 4)) <= Len(d)

\* C5: the length-prefixed scan takes exactly the maximal prefix of units
\* whose length field and body fit: the units lie end to end from offset 0,
\* each fits, each SEI unit among them has contributed its records, the scan
\* ends at the first point where no unit fits, and no byte from that point
\* on is part of a record.
C5_LengthPrefixedMaximalPrefix ==
    /\ \A i \in 1..Len(units) :
          LET u == units[i]
          IN  /\ u.sc_pos = ScanPoint(SubSeq(units, 1, i - 1))
              /\ UnitFitsAt(data, u.sc_pos)
              /\ u.start = u.sc_pos + 4
              /\ u.stop = u.start + U32(SubSeq(data, u.sc_pos + 1, u.sc_pos + 4))
              /\ LET nal == SubSeq(data, u.start + 1, u.stop)
                 IN  u.recs = IF nal # << >> /\ nal[1] % 32 = 6
                              THEN Shift(ParseSeiNalu(nal, FALSE), u.start)
                              ELSE << >>
    /\ sei_list = UnitRecs(units)
    /\ \A i \in 1..Len(sei_list) : EndOf(sei_list[i]) <= ScanPoint(units)
    /\ pc \in { "return", "done" } => ~ UnitFitsAt(data, ScanPoint(units))
    /\ pc = "done" => report = Returned(UnitRecs(units))

\* C5 witness: the scan took an SEI unit with a record and then stopped at a
\* length field that overruns the buffer
C5_Witness ==
    /\ op = "h264_nalus" /\ pc = "done"
    /\ sei_list # << >>
    /\ ScanPoint(units) + 4 <= Len(data)
    /\ ScanPoint(units) + 4 + U32(SubSeq(data, ScanPoint(units) + 1, ScanPoint(units) + 4))
          > Len(data)

\* a start code of either length begins at offset p of d
IsStartCode(d, p) == MatchAt(d, SC3, p) \/ MatchAt(d, SC4, p)

\* the least offset >= from where a start code begins, or Len(d) if none
FirstStartCode(d, from) ==
    IF \E p \in from..Len(d) : IsStartCode(d, p)
    THEN CHOOSE p \in from..Len(d) :
            /\ IsStartCode(d, p)
            /\ \A q \in from..(p - 1) : ~ IsStartCode(d, q)
    ELSE Len(d)

\* the offset where the start-code scan stands after the units us
StreamPoint(us) == IF us = << >> THEN 0 ELSE us[Len(us)].start

\* C6: at every step of the start-code scan the start code taken is the one
\* at the least position at or after the current offset, with its own length;
\* the NAL unit runs from just after it to the least position of a following
\* start code of either length, or to the end; a zero-length span is not
\* handed to the classifier; the scan ends only where no start code follows
\* (so a buffer with no start code yields no NAL unit).
C6_StartCodeEarliestOfBoth ==
    /\ \A i \in 1..Len(units) :
          LET u == units[i]
              from == StreamPoint(SubSeq(units, 1, i - 1))
          IN  /\ u.sc_pos = FirstStartCode(data, from)
              /\ u.sc_pos < Len(data)
              /\ u.sc_len = (IF MatchAt(data, SC4, u.sc_pos) THEN 4 ELSE 3)
              /\ u.start = u.sc_pos + u.sc_len
              /\ u.stop = FirstStartCode(data, u.start)
              /\ u.handed = (u.stop > u.start)
              /\ ~ u.handed => u.recs = << >>
              /\ u.handed =>
                    u.recs = Shift(Classify(SubSeq(data, u.start + 1, u.stop),
                                            op = "h265_stream"), u.start)
    /\ sei_list = UnitRecs(units)
    /\ pc \in { "return", "done" } =>
          FirstStartCode(data, StreamPoint(units)) = Len(data)

\* C6 witness: a 4-byte start code was taken at a position before the 3-byte
\* start code inside it, its NAL unit ended at a following start code, and
\* a 3-byte start code was followed by a zero-length span
C6_Witness ==
    /\ pc = "done"
    /\ \E i \in 1..Len(units) :
          units[i].sc_len = 4 /\ units[i].handed /\ units[i].stop < Len(data)
    /\ \E i \in 1..Len(units) : units[i].sc_len = 3 /\ ~ units[i].handed

\* the H.264 nal_unit_type: the low 5 bits of the first byte
NalType264(b) == CHOOSE t \in 0..31 : \E h \in 0..7 : b = 32 * h + t

\* the H.265 nal_unit_type: bits 1..6 of the first byte
NalType265(b) == CHOOSE t \in 0..63 : \E f \in 0..1, l \in 0..1 : b = 128 * f + 2 * t + l

\* C7: a NAL unit yields records only if it is an SEI unit long enough to
\* classify: in the H.264 paths only when byte0 & 0x1F = 6, in the H.265
\* path only when (byte0 >> 1) & 0x3F is 39 or 40; a unit shorter than the
\* codec's header, or of the header alone, yields no record; nothing raises.
C7_ClassifierOnlySei ==
    /\ report.kind # "exception"
    /\ sei_list = UnitRecs(units)
    /\ \A i \in 1..Len(units) :
          LET u == units[i]
              nal == SubSeq(data, u.start + 1, u.stop)
              hdr == IF u.codec = "H.265" THEN 2 ELSE 1
          IN  /\ Len(nal) <= hdr => u.recs = << >>
              /\ u.recs # << >> =>
                    IF u.codec = "H.265"
                    THEN NalType265(nal[1]) \in { 39, 40 }
                    ELSE NalType264(nal[1]) = 6
              /\ \A k \in 1..Len(u.recs) : u.recs[k].codec = u.codec

\* C7 witness: the scans are over, having met a header-only SEI unit that
\* gave no record, or an SEI unit with nal_ref_idc set that gave one
C7_Witness ==
    /\ pc = "done"
    /\ \E i \in 1..Len(units) :
          \/ /\ units[i].stop - units[i].start = 2
             /\ units[i].codec = "H.265"
             /\ At(data, units[i].start) = 80
             /\ units[i].recs = << >>
          \/ /\ units[i].stop > units[i].start
             /\ At(data, units[i].start) = 102
             /\ units[i].recs # << >>

-----------------------------------------------------------------------------
(* Claims about the FLV demuxer, checked under SpecFlv.                    *)

BeginsWithFLV(d) == Len(d) >= 3 /\ SubSeq(d, 1, 3) = << 70, 76, 86 >>

\* C3: on a buffer that does not begin with 'FLV', _parse_flv ends in the
\* format error and never returns a list, empty or partial; on a buffer that
\* begins with 'FLV' and has at least 9 bytes it never ends in the error.
C3_FlvMagicErrorOnly ==
    /\ ~ BeginsWithFLV(data) =>
          /\ report.kind # "list"
          /\ pc # "entry" => pc = "done" /\ report = Raised("ValueError")
    /\ BeginsWithFLV(data) /\ Len(data) >= 9 =>
          /\ report.kind # "exception"
          /\ pc = "done" => report.kind = "list"

\* C3 witness: a whole file with a video tag holding an SEI unit, under a
\* wrong signature, has ended in the error
C3_Witness ==
    /\ op = "flv" /\ pc = "done"
    /\ report = Raised("ValueError")
    /\ Len(data) > 13 + 11 + 5
    /\ At(data, 13) = 9

-----------------------------------------------------------------------------
(* Claims about the MP4 walk and about every entry point.                  *)

\* C4 (as claimed): apart from the FLV signature check no entry point ends
\* in an exception, an mdat box of box_size 0 at the start of the file
\* included.
C4_NoOtherRaise ==
    report.kind = "exception" => op = "flv" /\ report.name = "ValueError"

\* C8 (as claimed): every top-level mdat box the walk reaches has its body
\* handed to the scanners; the body starts 16 bytes after the box start when
\* box_size is 1 and 8 bytes after it otherwise; and when box_size is 0 the
\* body is exactly the bytes from there to the end of the buffer.
C8_MdatBodyToEndOfFile ==
    \A i \in 1..Len(mdat_data) :
        LET m == mdat_data[i]
        IN  /\ m.handed
            /\ m.start = m.box + (IF m.raw = 1 THEN 16 ELSE 8)
            /\ m.raw = 0 => m.body = SliceFrom(data, m.box + 8)

\* the whole of d from offset p on is a run of length-prefixed NAL units
RECURSIVE WholeRun(_, _)
WholeRun(d, p) ==
    \/ p = Len(d)
    \/ /\ UnitFitsAt(d, p)
       /\ WholeRun(d, p + 4 + U32(SubSeq(d, p + 1, p + 4)))

\* where the body of the box at the start of d begins: after the 64-bit
\* size when box_size is 1, after the 8-byte header otherwise
BodyStart(d) == IF SubSeq(d, 1, 4) = Size32(1) THEN 16 ELSE 8

\* the body of the one box of d
BodyOf(d) == SliceFrom(d, BodyStart(d))

\* d is one mdat box whose size field (the 32-bit one, or the 64-bit one
\* after box_size 1) is the length of the buffer, and its body is a
\* non-empty run of length-prefixed NAL units
OneMdatOfNalus(d) ==
    /\ Len(d) > 8
    /\ SubSeq(d, 5, 8) = MDAT
    /\ \/ SubSeq(d, 1, 4) = Size32(Len(d))
       \/ /\ SubSeq(d, 1, 4) = Size32(1)
          /\ Len(d) > 16
          /\ SubSeq(d, 9, 16) = Size64(Len(d))
    /\ WholeRun(BodyOf(d), 0)

\* the records of the SEI units (nal_type 6) of a run of length-prefixed
\* units that starts at offset base of the file
RECURSIVE SeiRecordsOfRun(_, _, _)
SeiRecordsOfRun(d, p, base) ==
    IF ~ UnitFitsAt(d, p) THEN << >>
    ELSE LET n == U32(SubSeq(d, p + 1, p + 4))
             nal == SubSeq(d, p + 5, p + 4 + n)
         IN  (IF n > 0 /\ NalType264(nal[1]) = 6
              THEN Shift(ParseSeiNalu(nal, FALSE), base + p + 4)
              ELSE << >>)
             \o SeiRecordsOfRun(d, p + 4 + n, base)

\* the pattern 00 00 01 occurs in d (a 4-byte start code holds it too)
HasStartCode(d) == \E p \in 0..Len(d) : MatchAt(d, SC3, p)

\* C9 (as claimed): for one mdat box whose body is a run of length-prefixed
\* H.264 NAL units, _parse_mp4 returns exactly the records of the SEI units
\* found by the length-prefixed attempt; the start-code attempt adds none.
\* (Stated for the boxes whose size field gives their length; a box of
\* box_size 0 is the subject of C8.)
C9_StartCodeAttemptAddsNothing ==
    op = "mp4" /\ pc = "done" /\ OneMdatOfNalus(data) =>
        /\ report = Returned(SeiRecordsOfRun(BodyOf(data), 0, BodyStart(data)))
        /\ \A i \in 1..Len(units) : units[i].kind = "StartCode" => units[i].recs = << >>

\* C9 (amended): for one mdat box whose size field gives its length and
\* whose body is a run of length-prefixed H.264 NAL units in which the
\* pattern 00 00 01 does not occur (so no length field is 00 00 00 01 and no
\* unit holds a start code), _parse_mp4 returns exactly the records of the
\* SEI units found by the length-prefixed attempt, and the start-code
\* attempt adds none.
C9_NoStartCodeNoSpuriousRecord ==
    op = "mp4" /\ pc = "done" /\ OneMdatOfNalus(data)
        /\ ~ HasStartCode(BodyOf(data)) =>
        /\ report = Returned(SeiRecordsOfRun(BodyOf(data), 0, BodyStart(data)))
        /\ Len(units) = 2
        /\ units[1].kind = "LengthPrefixed" /\ units[1].recs = report.val
        /\ units[2].kind = "StartCode" /\ units[2].recs = << >>

\* C9 witness: such a file has been parsed and the report holds a record
C9_Witness ==
    /\ op = "mp4" /\ pc = "done" /\ OneMdatOfNalus(data)
    /\ ~ HasStartCode(BodyOf(data))
    /\ report.kind = "list" /\ Len(report.val) >= 2

\* rs is in stream order: messages that start earlier come first
StreamOrder(rs) == \A i, j \in 1..Len(rs) : i < j => rs[i].g_start < rs[j].g_start

ReportPaths == { "flv", "mp4", "h264_stream", "h265_stream", "auto" }

\* C10 (as claimed): the report of every input path is in stream order.
C10_ReportInStreamOrder ==
    op \in ReportPaths /\ report.kind = "list" => StreamOrder(report.val)

\* C10 (amended): the reports of _parse_flv, _parse_h264_stream and
\* _parse_h265_stream are in stream order; the reports of _parse_mp4 and
\* _auto_detect_and_parse are the concatenation of the scanning passes in the
\* order they ran (per mdat box the length-prefixed pass, then the start-code
\* pass; the H.264 pass, then the H.265 pass), each pass in stream order.
C10_StreamOrderWithinEachPass ==
    op \in ReportPaths /\ report.kind = "list" =>
        IF op \in { "mp4", "auto" }
        THEN /\ report.val = PassRecs(units)
             /\ \A i \in 1..Len(units) : StreamOrder(units[i].recs)
             /\ op = "auto" => /\ Len(units) = 2
                               /\ units[1].kind = "H.264"
                               /\ units[2].kind = "H.265"
             /\ op = "mp4" => \A i \in 1..Len(units) :
                                 units[i].kind = (IF i % 2 = 1 THEN "LengthPrefixed"
                                                  ELSE "StartCode")
        ELSE StreamOrder(report.val)

\* C10 witness: _auto_detect_and_parse has returned the records of both
\* passes, each pass in stream order, and the report as a whole is not
C10_Witness ==
    /\ op = "auto" /\ report.kind = "list"
    /\ units[1].recs # << >> /\ units[2].recs # << >>
    /\ ~ StreamOrder(report.val)

-----------------------------------------------------------------------------
(* sei_parser2.py: parse_sei_message(payload), the decoder of the second   *)
(* script, run step by step.  data is the payload (the NAL unit without    *)
(* its header byte), sei_list the messages it prints, in order.            *)

\* lines 22-27: the loop test, the stop bit, and sei_type = 0
MsgLoopStep(d, f) ==
    IF f.offset < Len(d) /\ At(d, f.offset) # 128
    THEN [ f EXCEPT !.pc = "type", !.sei_type = 0, !.msg_start = f.offset ]
    ELSE [ f EXCEPT !.pc = "return" ]

\* lines 28-36: one pass of the continuation loop of the type, or the
\* terminal byte if there is one, and sei_size = 0; at the end of the
\* payload nothing is consumed and the size is read next
MsgTypeStep(d, f) ==
    IF f.offset < Len(d) /\ At(d, f.offset) = 255
    THEN [ f EXCEPT !.sei_type = @ + 255, !.offset = @ + 1 ]
    ELSE IF f.offset < Len(d)
    THEN [ f EXCEPT !.sei_type = @ + At(d, f.offset), !.offset = @ + 1,
                    !.sei_size = 0, !.pc = "size" ]
    ELSE [ f EXCEPT !.sei_size = 0, !.pc = "size" ]

\* lines 37-42: the same for the size
MsgSizeStep(d, f) ==
    IF f.offset < Len(d) /\ At(d, f.offset) = 255
    THEN [ f EXCEPT !.sei_size = @ + 255, !.offset = @ + 1 ]
    ELSE IF f.offset < Len(d)
    THEN [ f EXCEPT !.sei_size = @ + At(d, f.offset), !.offset = @ + 1,
                    !.pc = "extract" ]
    ELSE [ f EXCEPT !.pc = "extract" ]

\* lines 49, 54-57, 76: the message printed
MsgInfo(d, f) ==
    [ sei_type      |-> f.sei_type,
      size          |-> f.sei_size,
      payload_bytes |-> Slice(d, f.offset, f.offset + f.sei_size),
      g_start       |-> f.msg_start,
      g_hdr         |-> f.offset - f.msg_start,
      g_declared    |-> f.sei_size ]

\* lines 44-78: an overrunning size ends the decoding with a warning;
\* otherwise the payload is sliced, the message printed, the offset advanced
MsgExtractStep(d, f) ==
    IF f.offset + f.sei_size > Len(d)
    THEN [ f EXCEPT !.pc = "return" ]
    ELSE [ f EXCEPT !.sei_list = Append(@, MsgInfo(d, f)),
                    !.offset = @ + f.sei_size,
                    !.pc = "loop" ]

MsgStep(d, f) ==
    CASE f.pc = "loop"    -> MsgLoopStep(d, f)
      [] f.pc = "type"    -> MsgTypeStep(d, f)
      [] f.pc = "size"    -> MsgSizeStep(d, f)
      [] f.pc = "extract" -> MsgExtractStep(d, f)

\* line 21: offset = 0
MsgFrame0 == [ SeiFrame0 EXCEPT !.pc = "loop" ]

RECURSIVE MsgRun(_, _)
MsgRun(d, f) ==
    IF f.pc = "return" THEN f.sei_list
    ELSE CHOOSE l \in { MsgRun(d, g) : g \in { MsgStep(d, f) } } : TRUE

\* the messages parse_sei_message(payload) prints
ParseSeiMessage(d) == MsgRun(d, MsgFrame0)

\* the payloads given to parse_sei_message
MsgInputs == SeqsUpTo(SeiPayloadBytes, MaxPayload)

InitMsg ==
    /\ op = "sei_message"
    /\ is_h265 = FALSE
    /\ data \in MsgInputs
    /\ pc = "loop"
    /\ offset = 0
    /\ sei_type = 0
    /\ sei_size = 0
    /\ sei_list = << >>
    /\ box_data_start = Unbound
    /\ mdat_data = << >>
    /\ units = << >>
    /\ msg_start = 0
    /\ report = NoReport

MsgLoopTest ==
    /\ op = "sei_message" /\ pc = "loop"
    /\ SetFrame(MsgLoopStep(data, Frame))
    /\ SeiUnchanged

MsgScanType ==
    /\ op = "sei_message" /\ pc = "type"
    /\ SetFrame(MsgTypeStep(data, Frame))
    /\ SeiUnchanged

MsgScanSize ==
    /\ op = "sei_message" /\ pc = "size"
    /\ SetFrame(MsgSizeStep(data, Frame))
    /\ SeiUnchanged

MsgExtract ==
    /\ op = "sei_message" /\ pc = "extract"
    /\ SetFrame(MsgExtractStep(data, Frame))
    /\ SeiUnchanged

\* the function ends (it returns nothing): report holds what it printed
MsgReturn ==
    /\ op = "sei_message" /\ pc = "return"
    /\ pc' = "done"
    /\ report' = Returned(sei_list)
    /\ UNCHANGED << op, data, is_h265, offset, sei_type, sei_size, sei_list,
                    box_data_start, mdat_data, units, msg_start >>

NextMsg ==
    \/ MsgLoopTest
    \/ MsgScanType
    \/ MsgScanSize
    \/ MsgExtract
    \/ MsgReturn

SpecMsg == InitMsg /\ [][NextMsg]_vars

-----------------------------------------------------------------------------
(* simple_sei_parser.py: parse_flv_sei and the functions it calls.  The    *)
(* script prints each SEI message; sei_list holds what it prints, in order. *)

\* lines 68-70: the loop test, and sei_type = 0
SimpleLoopStep(d, f) ==
    IF f.offset < Len(d)
    THEN [ f EXCEPT !.pc = "type", !.sei_type = 0, !.msg_start = f.offset ]
    ELSE [ f EXCEPT !.pc = "return" ]

\* lines 71-82: the continuation loop of the type, the break at the end of
\* data, or the terminal byte and sei_size = 0
SimpleTypeStep(d, f) ==
    IF f.offset < Len(d) /\ At(d, f.offset) = 255
    THEN [ f EXCEPT !.sei_type = @ + 255, !.offset = @ + 1 ]
    ELSE IF f.offset >= Len(d)
    THEN [ f EXCEPT !.pc = "return" ]
    ELSE [ f EXCEPT !.sei_type = @ + At(d, f.offset), !.offset = @ + 1,
                    !.sei_size = 0, !.pc = "size" ]

\* lines 83-91: the same for the size
SimpleSizeStep(d, f) ==
    IF f.offset < Len(d) /\ At(d, f.offset) = 255
    THEN [ f EXCEPT !.sei_size = @ + 255, !.offset = @ + 1 ]
    ELSE IF f.offset >= Len(d)
    THEN [ f EXCEPT !.pc = "return" ]
    ELSE [ f EXCEPT !.sei_size = @ + At(d, f.offset), !.offset = @ + 1,
                    !.pc = "payload" ]

\* lines 94-124: clamp, slice, print, advance
SimplePayloadStep(d, f) ==
    LET size == IF f.offset + f.sei_size > Len(d) THEN Len(d) - f.offset
                ELSE f.sei_size
    IN  [ f EXCEPT !.sei_size = size,
                   !.sei_list = Append(@,
                       [ sei_type      |-> f.sei_type,
                         size          |-> size,
                         payload_bytes |-> Slice(d, f.offset, f.offset + size),
                         g_start       |-> f.msg_start,
                         g_hdr         |-> f.offset - f.msg_start,
                         g_declared    |-> f.sei_size ]),
                   !.offset = @ + size,
                   !.pc = "loop" ]

SimpleSeiStep(d, f) ==
    CASE f.pc = "loop"    -> SimpleLoopStep(d, f)
      [] f.pc = "type"    -> SimpleTypeStep(d, f)
      [] f.pc = "size"    -> SimpleSizeStep(d, f)
      [] f.pc = "payload" -> SimplePayloadStep(d, f)

RECURSIVE SimpleSeiRun(_, _)
SimpleSeiRun(d, f) ==
    IF f.pc = "return" THEN f.sei_list
    ELSE CHOOSE l \in { SimpleSeiRun(d, g) : g \in { SimpleSeiStep(d, f) } } : TRUE

\* parse_sei_nalu(nalu_data, sei_number): lines 65-66, offset = 1
SimpleParseSeiNalu(d) ==
    SimpleSeiRun(d, [ SeiFrame0 EXCEPT !.pc = "loop", !.offset = 1 ])

\* lines 47-58: the loop test and one NAL unit
SimpleNalusIter(d, off) ==
    IF ~ (off + 4 < Len(d))
    THEN [ stop |-> TRUE, offset |-> off, recs |-> << >> ]
    ELSE LET nalu_length == U32(Slice(d, off, off + 4))
         IN  IF off + 4 + nalu_length > Len(d)
             THEN [ stop |-> TRUE, offset |-> off + 4, recs |-> << >> ]
             ELSE LET nalu == Slice(d, off + 4, off + 4 + nalu_length)
                  IN  [ stop |-> FALSE, offset |-> off + 4 + nalu_length,
                        recs |-> IF Len(nalu) > 0 /\ At(nalu, 0) % 32 = 6
                                 THEN Shift(SimpleParseSeiNalu(nalu), off + 4)
                                 ELSE << >> ]

RECURSIVE SimpleNalusRun(_, _, _)
SimpleNalusRun(d, off, acc) ==
    CHOOSE l \in { IF it.stop THEN acc
                   ELSE SimpleNalusRun(d, it.offset, acc \o it.recs) :
                   it \in { SimpleNalusIter(d, off) } } : TRUE

\* extract_sei_from_nalus(data, start_count)
ExtractSeiFromNalus(d) == SimpleNalusRun(d, 0, << >>)

\* a demuxer that takes a video tag without testing that it fits
SimpleFlvIter_NoOverrunTest(d, off) ==
    IF ~ (off < Len(d)) \/ off + 11 > Len(d)
    THEN [ stop |-> TRUE, offset |-> off, recs |-> << >> ]
    ELSE LET tag_type == At(d, off)
             data_size == U24(Slice(d, off + 1, off + 4))
             video_data == Slice(d, off + 11, off + 11 + data_size)
         IN  [ stop |-> FALSE, offset |-> off + 11 + data_size + 4,
               recs |-> IF /\ tag_type = 9
                           /\ Len(video_data) >= 5
                           /\ At(video_data, 0) % 16 = 7
                           /\ At(video_data, 1) = 1
                        THEN Shift(ExtractSeiFromNalus(SliceFrom(video_data, 5)),
                                   off + 11 + 5)
                        ELSE << >> ]

\* lines 23-39: the loop test and one tag; a tag that overruns the file is
\* skipped, not a reason to leave the loop
SimpleFlvIter(d, off) ==
    IF ~ (off < Len(d)) \/ off + 11 > Len(d)
    THEN [ stop |-> TRUE, offset |-> off, recs |-> << >> ]
    ELSE LET tag_type == At(d, off)
             data_size == U24(Slice(d, off + 1, off + 4))
             video_data == Slice(d, off + 11, off + 11 + data_size)
         IN  [ stop |-> FALSE, offset |-> off + 11 + data_size + 4,
               recs |-> IF /\ tag_type = 9 /\ off + 11 + data_size <= Len(d)
                           /\ Len(video_data) >= 5
                           /\ At(video_data, 0) % 16 = 7
                           /\ At(video_data, 1) = 1
                        THEN Shift(ExtractSeiFromNalus(SliceFrom(video_data, 5)),
                                   off + 11 + 5)
                        ELSE << >> ]

\* the outcome of parse_flv_sei on a file of another signature: the error
\* is printed and the function returns
Rejected == [ kind |-> "rejected" ]

\* tag bodies in which the two length-prefixed loops meet their guards:
\* zero bytes or a whole or cut length field after the last unit, an empty
\* unit, a header-only SEI unit, an SEI unit whose size is clamped
SimpleBodies ==
    FlvBodies
    \cup { << 23, 1, 0, 0, 0 >> \o LengthPrefixed(SeiNal) \o << 0, 0, 0, 0 >>,
           << 23, 1, 0, 0, 0 >> \o LengthPrefixed(SeiNal) \o << 0, 0, 0 >>,
           << 23, 1, 0, 0, 0 >> \o LengthPrefixed(<< >>) \o LengthPrefixed(<< 6 >>)
               \o LengthPrefixed(<< 6, 5, 9, 7 >>),
           << 23, 1, 0, 0, 0 >> \o LenField(9) \o SeiNal }

SimpleTags ==
    FlvTags \cup { FlvTag(9, Len(b), b) : b \in SimpleBodies }

\* the files given to parse_flv_sei: FLV files cut anywhere, and whole files
\* under another signature
SimpleInputs ==
    Prefixes({ FlvHeader(FLV) \o Concat(ts) : ts \in SeqsUpTo(SimpleTags, MaxTags) })
    \cup FlvFiles(<< 70, 76, 87 >>)

InitSimple ==
    /\ op = "flv_simple"
    /\ data \in SimpleInputs
    /\ is_h265 = FALSE
    /\ InitCommon

\* lines 16-21: the signature test; offset = 13
SimpleEntry ==
    /\ op = "flv_simple" /\ pc = "entry"
    /\ IF Slice(data, 0, 3) # FLV
       THEN /\ pc' = "done"
            /\ offset' = offset
            /\ report' = Rejected
       ELSE /\ pc' = "loop"
            /\ offset' = 13
            /\ report' = report
    /\ sei_list' = << >>
    /\ FlvUnchanged

\* one pass of the tag loop
SimpleLoop ==
    /\ op = "flv_simple" /\ pc = "loop"
    /\ LET it == SimpleFlvIter(data, offset)
       IN  /\ pc' = IF it.stop THEN "return" ELSE "loop"
           /\ offset' = it.offset
           /\ sei_list' = sei_list \o it.recs
    /\ report' = report
    /\ FlvUnchanged

\* the function ends (it returns nothing): report holds what it printed
SimpleReturn ==
    /\ op = "flv_simple" /\ pc = "return"
    /\ pc' = "done"
    /\ report' = Returned(sei_list)
    /\ UNCHANGED << offset, sei_list >>
    /\ FlvUnchanged

NextSimple ==
    \/ SimpleEntry
    \/ SimpleLoop
    \/ SimpleReturn

SpecSimple == InitSimple /\ [][NextSimple]_vars

\* _parse_flv(data) as a function of its argument
RECURSIVE FlvRun(_, _, _)
FlvRun(d, off, acc) ==
    CHOOSE l \in { IF it.stop THEN acc ELSE FlvRun(d, it.offset, acc \o it.recs) :
                   it \in { FlvIter(d, off) } } : TRUE

ParseFlv(d) ==
    IF FlvMagicOk(d) THEN Returned(FlvRun(d, 9 + 4, << >>))
    ELSE Raised("ValueError")

-----------------------------------------------------------------------------
(* Claims about the stop bit and about truncated headers.                  *)

\* the message boundaries of a decoded NAL unit: the start of the payload
\* and the offset just after each record
Boundaries(rs, h265) ==
    { PayloadStart(h265) } \cup { EndOf(rs[i]) : i \in 1..Len(rs) }

\* C11 (as claimed): in _parse_sei_nalu a byte 0x80 at a message boundary
\* ends the decoding of the NAL unit; no record is emitted for a message
\* that starts at that byte or after it.
C11_StopBitEndsDecoding ==
    op = "sei_nalu" =>
        \A b \in Boundaries(sei_list, is_h265) :
            b < Len(data) /\ At(data, b) = 128 =>
                \A i \in 1..Len(sei_list) : sei_list[i].g_start < b

\* C12 (as claimed): in parse_sei_message a payload that ends inside a
\* message header (while the terminal byte of the type or of the size is
\* sought) ends the decoding, and no message is reported for that header:
\* every message reported has its whole header inside the payload.
C12_NoMessageForTruncatedHeader ==
    op = "sei_message" =>
        \A i \in 1..Len(sei_list) : HeaderAt(data, sei_list[i].g_start)

\* C13 (as claimed): every iteration of the box walk of _parse_mp4 that
\* goes on to another iteration has strictly increased the offset, whatever
\* the 32-bit box_size and the 64-bit extended size are (so the walk ends on
\* every finite buffer).
C13_WalkAdvances ==
    [][ op = "mp4" /\ pc = "loop" /\ pc' = "loop" => offset' > offset ]_vars

\* what both front ends report of a message
Triples(rs) ==
    [ i \in 1..Len(rs) |-> << rs[i].sei_type, rs[i].size, rs[i].payload_bytes >> ]

\* C14: on every buffer of at least 9 bytes that begins with 'FLV', the
\* (sei_type, size, payload bytes) that parse_flv_sei of simple_sei_parser.py
\* reports are, in order and number, those of the records _parse_flv returns.
C14_FlvFrontEndsAgree ==
    op = "flv_simple" /\ pc = "done" /\ Len(data) >= 9 /\ BeginsWithFLV(data) =>
        /\ report.kind = "list"
        /\ ParseFlv(data).kind = "list"
        /\ Triples(report.val) = Triples(ParseFlv(data).val)

\* C14 witness: parse_flv_sei has reported a message with a clamped size
\* from a file whose last tag overruns it (the tag _parse_flv breaks at and
\* parse_flv_sei skips)
C14_Witness ==
    /\ op = "flv_simple" /\ pc = "done" /\ report.kind = "list"
    /\ \E i \in 1..Len(report.val) : report.val[i].g_declared > report.val[i].size
    /\ offset > Len(data) + 4

====
